---- MODULE Spec2Model ----
(***************************************************************************)
(* Quota-aware YouTube extraction pipeline: the Quota Ledger               *)
(* (QuotaManager), the Remote Call Gateway (YouTubeAPIClient), the         *)
(* Pagination Driver (VideoDataExtractor.search_videos), the channel batch *)
(* loop (ChannelDataExtractor.get_channel_details) and the Checkpointed    *)
(* Campaign Runner (main.main and api.run_extraction_task).                *)
(***************************************************************************)
EXTENDS Integers, Sequences, FiniteSets, TLC

VARIABLES
    quota_manager,  \* the client's QuotaManager: daily_limit, used_quota, request_count
    charged,        \* history: successful record_request calls per operation since construction/reset
    last_call,      \* history: what the latest Gateway call did (events in order, outcome)
    call_bit,       \* history: flips on every Gateway call
    governor,       \* the client's rate limiter seen from now: ticks since last_request_time
                    \* and since the latest remote call returned (followed in SpecGovernor)
    spacing,        \* history: the same two ages at the moment the latest remote call was issued
    last_remote,    \* history: what request.execute() did in the latest direct Gateway call
                    \* (followed in SpecClient)
    asked,          \* history: what the latest query of the Ledger returned (followed in
                    \* SpecLedger)
    \* VideoDataExtractor.search_videos (the Pagination Driver)
    driver_pc,      \* "idle", "loop" (inside the while loop), "returned", "raised"
    query,          \* its query argument
    max_videos,     \* its max_videos argument
    videos,         \* its local list of extracted records
    page_token,     \* its local page token ("None" for None)
    page_no,        \* history: pages it has received
    entry_budget,   \* history: get_remaining_quota() when it was called
    driver_result,  \* the list it returned
    driver_exit,    \* history: the statement that ended the loop
    \* ChannelDataExtractor.get_channel_details (the channel batch loop)
    chan_pc,        \* "idle", "loop", "returned", "raised"
    channel_ids,    \* its channel_ids argument
    batch_start,    \* its loop variable i
    channels,       \* its local list of extracted records
    chan_result,    \* the list it returned
    chan_exit,      \* history: the statement that ended the loop
    batches,        \* history: the requests of this call that reached the remote service
    \* The Campaign Runner: main.main ("cli") or api.run_extraction_task ("api")
    mode,           \* which of the two runners this behaviour follows
    camp_pc,        \* "idle", "queued", "loop", "driver", "dump", "sleep", "after loop",
                    \* "channels", "finish", "done", "failed", "dead"
    tasks,          \* api: extraction tasks accepted by start_extraction and not yet ended
    queries,        \* SEARCH_PHRASES or config.queries
    videos_per_query, \* VIDEOS_PER_QUERY or config.videos_per_query
    daily_quota,    \* the client's daily_quota argument
    progress,       \* the checkpoint as loaded at the start of the campaign
    remaining_queries,
    qi,             \* position of the for loop in remaining_queries, from 1
    all_video_data, \* dict query -> videos, in insertion order
    file,           \* extraction_progress.json on disk
    status,         \* api.extraction_status
    attempted,      \* history: queries handed to search_videos in this campaign
    finished        \* history: queries whose search_videos returned in this campaign

ledgerVars == <<quota_manager, charged, last_call, call_bit>>

timeVars == <<governor, spacing, last_remote, asked>>

driverVars == <<driver_pc, query, max_videos, videos, page_token, page_no, entry_budget,
                driver_result,
                driver_exit>>

chanVars == <<chan_pc, channel_ids, batch_start, channels, chan_result, chan_exit,
              batches>>

campVars == <<mode, camp_pc, tasks, queries, videos_per_query, daily_quota, progress,
              remaining_queries, qi, all_video_data, file, status, attempted, finished>>

vars == <<ledgerVars, timeVars, driverVars, chanVars, campVars>>

----------------------------------------------------------------------------
(* Bounds of the model *)

MaxSearchBudget == 2    \* daily limits offer up to this many searches ...
MaxUnitBudget == 2      \* ... plus up to this many single units
MaxRequests == 4        \* no direct Gateway call on a client that has made this many charges
MaxPriorRequests == 1   \* no new extractor call on a client that has made this many charges
MaxIds == 2             \* ids in a direct videos/channels request
MaxPageItems == 2       \* items in one page of search results
MaxTarget == 2          \* max_videos of one Pagination Driver run
MaxBatches == 2         \* full batches of channel ids in one channel pass
MaxPages == 2           \* pages the remote service has for one query of a campaign
MaxQueryBudget == 2     \* campaign daily quotas leave room for up to this many searches
MaxAge == 3             \* ages of the rate limiter are followed up to this many ticks
MaxDuration == 2        \* a remote call takes up to this many ticks
MaxTimedCalls == 2      \* no timed Gateway call on a client that has made this many charges

----------------------------------------------------------------------------
(* Quota Ledger: QuotaManager *)

Min(a, b) == IF a < b THEN a ELSE b

Operations == {"search", "videos", "channels"}

\* The mutant prices a search like the other operations.
COSTS_search_as_unit == [search |-> 1, videos |-> 1, channels |-> 1]

COSTS == [search |-> 100, videos |-> 1, channels |-> 1]

\* self.COSTS.get(operation, 1)
Cost(operation) == IF operation \in DOMAIN COSTS THEN COSTS[operation] ELSE 1

\* QuotaManager.__init__
NewQuotaManager(daily_limit) ==
    [daily_limit |-> daily_limit, used_quota |-> 0, request_count |-> 0]

\* The mutant compares the quota used so far, without the cost of the request.
can_make_request_lax(qm, operation) ==
    qm.used_quota <= qm.daily_limit

can_make_request(qm, operation) ==
    (qm.used_quota + Cost(operation)) <= qm.daily_limit

record_request_flat(qm, operation) ==
    [qm EXCEPT !.used_quota = @ + 1, !.request_count = @ + 1]

record_request(qm, operation) ==
    [qm EXCEPT !.used_quota = @ + Cost(operation), !.request_count = @ + 1]

get_remaining_quota(qm) == qm.daily_limit - qm.used_quota

\* The mutant leaves the count of requests as it is.
reset_quota_keeps_count(qm) == [qm EXCEPT !.used_quota = 0]

reset_quota(qm) == [qm EXCEPT !.used_quota = 0, !.request_count = 0]

get_quota_usage(qm) ==
    [used |-> qm.used_quota, limit |-> qm.daily_limit,
     remaining |-> get_remaining_quota(qm), requests |-> qm.request_count]

NoCharges == [op \in Operations |-> 0]

----------------------------------------------------------------------------
(* The remote service: what request.execute() can do *)

NoResponse == [items |-> <<>>, nextPageToken |-> "None"]

\* HttpError with resp.status and whether str(e) contains 'quotaExceeded';
\* "Exception" is any failure that is not an HttpError (socket, timeout, ...).
RemoteErrors ==
    {[kind |-> "HttpError", status |-> s, marker |-> m] : s \in {403, 500}, m \in BOOLEAN}
    \cup {[kind |-> "Exception", status |-> 0, marker |-> FALSE]}

RemoteOk(response) == [kind |-> "ok", response |-> response]

----------------------------------------------------------------------------
(* Remote Call Gateway: YouTubeAPIClient *)

\* The mutant looks at the status only.
Raised_by_status(remote) ==
    IF remote.kind = "HttpError"
    THEN IF remote.status = 403 THEN "QuotaExceededError" ELSE "HttpError"
    ELSE "Exception"

\* except HttpError as e: 403 with the marker becomes QuotaExceededError, any
\* other HttpError is re-raised; a non-HttpError is not caught at all.
Raised(remote) ==
    IF remote.kind = "HttpError"
    THEN IF remote.status = 403 /\ remote.marker THEN "QuotaExceededError" ELSE "HttpError"
    ELSE "Exception"

CallResult(qm, op, request, events, raised, response) ==
    [qm |-> qm, op |-> op, request |-> request, events |-> events,
     raised |-> raised, response |-> response]

\* The mutant charges the Ledger before request.execute() returns.
GatewayCall_speculative(qm, op, request, remote) ==
    IF ~can_make_request(qm, op)
    THEN CallResult(qm, op, request, <<>>, "QuotaExceededError", NoResponse)
    ELSE IF remote.kind = "ok"
         THEN CallResult(record_request(qm, op), op, request,
                         <<"throttle", "charge", "remote">>, "none", remote.response)
         ELSE CallResult(record_request(qm, op), op, request,
                         <<"throttle", "charge", "remote">>, Raised(remote), NoResponse)

\* The mutant throttles and calls the remote service before the pre-check.
GatewayCall_open(qm, op, request, remote) ==
    IF remote.kind = "ok"
    THEN CallResult(record_request(qm, op), op, request,
                    <<"throttle", "remote", "charge">>, "none", remote.response)
    ELSE CallResult(qm, op, request, <<"throttle", "remote">>, Raised(remote), NoResponse)

\* The mutant leaves out _wait_for_rate_limit.
GatewayCall_unthrottled(qm, op, request, remote) ==
    IF ~can_make_request(qm, op)
    THEN CallResult(qm, op, request, <<>>, "QuotaExceededError", NoResponse)
    ELSE IF remote.kind = "ok"
         THEN CallResult(record_request(qm, op), op, request,
                         <<"remote", "charge">>, "none", remote.response)
         ELSE CallResult(qm, op, request, <<"remote">>, Raised(remote), NoResponse)

\* The body shared by search_videos, get_video_details and get_channel_details
\* once the request is known to be non-empty: pre-check, _wait_for_rate_limit,
\* request.execute(), record_request on success, the except clause otherwise.
GatewayCall(qm, op, request, remote) ==
    IF ~can_make_request(qm, op)
    THEN CallResult(qm, op, request, <<>>, "QuotaExceededError", NoResponse)
    ELSE IF remote.kind = "ok"
         THEN CallResult(record_request(qm, op), op, request,
                         <<"throttle", "remote", "charge">>, "none", remote.response)
         ELSE CallResult(qm, op, request, <<"throttle", "remote">>, Raised(remote), NoResponse)

\* YouTubeAPIClient.search_videos
client_search_videos(qm, q, max_results, token, remote) ==
    GatewayCall(qm, "search",
                [q |-> q, maxResults |-> Min(max_results, 50), pageToken |-> token],
                remote)

\* ids[:50]
First50(ids) == SubSeq(ids, 1, Min(Len(ids), 50))

\* YouTubeAPIClient.get_video_details
client_get_video_details(qm, video_ids, remote) ==
    IF video_ids = <<>>
    THEN CallResult(qm, "videos", [id |-> <<>>], <<>>, "none", NoResponse)
    ELSE GatewayCall(qm, "videos", [id |-> First50(video_ids)], remote)

\* YouTubeAPIClient.get_channel_details
client_get_channel_details(qm, ids, remote) ==
    IF ids = <<>>
    THEN CallResult(qm, "channels", [id |-> <<>>], <<>>, "none", NoResponse)
    ELSE GatewayCall(qm, "channels", [id |-> First50(ids)], remote)

NoCall == [op |-> "none", request |-> <<>>, events |-> <<>>, raised |-> "none",
           received |-> 0, next_token |-> "None"]

\* What a Gateway call leaves in the Ledger and in the history variables.
Charges(r) == Len(SelectSeq(r.events, LAMBDA e : e = "charge"))

AfterCall(r) ==
    /\ quota_manager' = r.qm
    /\ charged' = [charged EXCEPT ![r.op] = @ + Charges(r)]
    /\ last_call' = [op |-> r.op, request |-> r.request, events |-> r.events,
                     raised |-> r.raised, received |-> Len(r.response.items),
                     next_token |-> r.response.nextPageToken]
    /\ call_bit' = 1 - call_bit

\* Rate Governor. Time is counted in ticks of half a second; an age of
\* MaxAge stands for MaxAge ticks or more.
min_request_interval == 2

Age(n) == Min(n, MaxAge)

\* YouTubeAPIClient.__init__: last_request_time = 0, longer ago than any interval.
NewGovernor == [since_request |-> MaxAge, since_return |-> MaxAge, called |-> FALSE]

NoSpacing == [first |-> TRUE, since_issue |-> MaxAge, since_return |-> MaxAge]

NoRemote == [kind |-> "none", status |-> 0, marker |-> FALSE]

\* No query of the Ledger made yet.
NoAnswer == [bit |-> 0, operation |-> "none", can |-> FALSE, remaining |-> 0,
             usage |-> [used |-> 0, limit |-> 0, remaining |-> 0, requests |-> 0]]

\* The outcome of request.execute() as the except clause sees it.
Outcome(remote) ==
    IF remote.kind = "ok"
    THEN [kind |-> "ok", status |-> 200, marker |-> FALSE]
    ELSE [kind |-> remote.kind, status |-> remote.status, marker |-> remote.marker]

\* The mutant never sleeps.
sleep_time_none(since_request) == 0

\* _wait_for_rate_limit: the time it sleeps.
sleep_time(since_request) ==
    IF since_request < min_request_interval
    THEN min_request_interval - since_request
    ELSE 0

InitLedger(limit) ==
    /\ governor = NewGovernor
    /\ spacing = NoSpacing
    /\ last_remote = NoRemote
    /\ asked = NoAnswer
    /\ quota_manager = NewQuotaManager(limit)
    /\ charged = NoCharges
    /\ last_call = NoCall
    /\ call_bit = 0

----------------------------------------------------------------------------
(* Pagination Driver: VideoDataExtractor *)

videos_per_page == 50

VideoIds == {"v1", "v2"}

PageTokens == {"t1", "t2"}

\* Channel ids are numbered from 1; NoId stands for the empty string.
NoId == 0

\* Raw search items. video_item['id'] is a dict holding videoId, a dict
\* without it, a plain string, or absent; snippet.channelId may be absent.
\* The other snippet fields are copied through unread and are left out.
RawItems ==
    {[id |-> [form |-> "dict", videoId |-> "v1"], channelId |-> 1],
     [id |-> [form |-> "str", videoId |-> "v2"], channelId |-> 2],
     [id |-> [form |-> "dict", videoId |-> ""], channelId |-> 1],
     [id |-> [form |-> "absent", videoId |-> ""], channelId |-> NoId]}

RECURSIVE SeqsUpTo(_, _)
SeqsUpTo(S, n) ==
    IF n = 0 THEN {<<>>}
    ELSE LET shorter == SeqsUpTo(S, n - 1)
         IN  shorter \cup {Append(p, x) : p \in {q \in shorter : Len(q) = n - 1}, x \in S}

\* The remote service answers a search with any page of at most MaxPageItems
\* items, whatever maxResults asked for, with or without a next page token.
SearchResponses ==
    {[items |-> p, nextPageToken |-> t] :
        p \in SeqsUpTo(RawItems, MaxPageItems), t \in PageTokens \cup {"None"}}

SearchOutcomes == {RemoteOk(r) : r \in SearchResponses} \cup RemoteErrors

\* VideoDataExtractor.extract_video_data: video_item.get('id', {}) and, when
\* that is a dict, its .get('videoId', '').
extract_video_data(video_item) ==
    [videoId |-> IF video_item.id.form = "absent" THEN ""
                 ELSE video_item.id.videoId,
     channelId |-> video_item.channelId]

KeepVideo_always(video_data) == TRUE

\* if video_data['videoId']:
KeepVideo(video_data) == video_data.videoId # ""

\* for item in items: ... videos.append(video_data)
RECURSIVE AppendValid(_, _)
AppendValid(vs, items) ==
    IF items = <<>> THEN vs
    ELSE LET video_data == extract_video_data(Head(items))
         IN  AppendValid(IF KeepVideo(video_data) THEN Append(vs, video_data) ELSE vs,
                         Tail(items))

ReturnCapped_uncapped(vs, n) == vs

\* return videos[:max_videos]
ReturnCapped(vs, n) ==
    IF n >= 0 THEN SubSeq(vs, 1, Min(Len(vs), n)) ELSE SubSeq(vs, 1, Len(vs) + n)

OnSearchRaised_escalates(raised) ==
    IF raised = "QuotaExceededError" THEN "propagate" ELSE "return videos"

\* What search_videos does with an exception of client.search_videos:
\* except QuotaExceededError: break; except Exception: return videos.
OnSearchRaised(raised) ==
    IF raised = "QuotaExceededError" THEN "break" ELSE "return videos"

\* The mutant takes every page for one that has a successor.
next_page_token_always(response) == "t1"

\* Line 110: response.get('nextPageToken')
next_page_token(response) == response.nextPageToken

\* The mutant leaves the loop one record short of the target.
while_condition_short(collected, target) == Len(collected) + 1 < target

\* Line 74: while len(videos) < max_videos
while_condition(collected, target) == Len(collected) < target

DriverIdle ==
    /\ driver_pc = "idle"
    /\ query = "none"
    /\ max_videos = 0
    /\ videos = <<>>
    /\ page_token = "None"
    /\ page_no = 0
    /\ entry_budget = 0
    /\ driver_result = <<>>
    /\ driver_exit = "none"

\* The frame of a finished call is gone.
DriverForgotten ==
    /\ driver_pc' = "idle"
    /\ query' = "none"
    /\ max_videos' = 0
    /\ videos' = <<>>
    /\ page_token' = "None"
    /\ page_no' = 0
    /\ entry_budget' = 0
    /\ driver_result' = <<>>
    /\ driver_exit' = "none"

DriverReturns(result, exit) ==
    /\ driver_pc' = "returned"
    /\ driver_result' = result
    /\ driver_exit' = exit

\* Lines 67-74: the locals and the first test of the while condition.
DriverEnter(q, target) ==
    /\ query' = q
    /\ max_videos' = target
    /\ videos' = <<>>
    /\ page_token' = "None"
    /\ page_no' = 0
    /\ entry_budget' = get_remaining_quota(quota_manager)
    /\ IF while_condition(<<>>, target)
       THEN /\ driver_pc' = "loop"
            /\ driver_result' = <<>>
            /\ driver_exit' = "none"
       ELSE DriverReturns(ReturnCapped(<<>>, target), "while")

\* Lines 75-116 and the next test of the while condition: one pass of the
\* loop body, with whatever ends the loop and the return that follows it.
DriverIteration(outcomes) ==
    /\ driver_pc = "loop"
    /\ UNCHANGED <<query, max_videos, entry_budget>>
    /\ LET remaining == max_videos - Len(videos)
           results_to_request == Min(videos_per_page, remaining)
       IN
       IF ~can_make_request(quota_manager, "search")
       THEN /\ DriverReturns(ReturnCapped(videos, max_videos), "quota pre-check")
            /\ UNCHANGED <<ledgerVars, videos, page_token, page_no>>
       ELSE \E remote \in outcomes :
              LET r == client_search_videos(quota_manager, query, results_to_request,
                                            page_token, remote)
                  collected == AppendValid(videos, r.response.items)
              IN
              /\ AfterCall(r)
              /\ page_no' = IF r.raised = "none" THEN page_no + 1 ELSE page_no
              /\ IF r.raised # "none"
                 THEN /\ UNCHANGED <<videos, page_token>>
                      /\ CASE OnSearchRaised(r.raised) = "break" ->
                                 DriverReturns(ReturnCapped(videos, max_videos),
                                               "QuotaExceededError")
                           [] OnSearchRaised(r.raised) = "return videos" ->
                                 DriverReturns(videos, "Exception")
                           [] OTHER ->
                                 /\ driver_pc' = "raised"
                                 /\ driver_result' = <<>>
                                 /\ driver_exit' = r.raised
                 ELSE IF r.response.items = <<>>
                 THEN /\ UNCHANGED <<videos, page_token>>
                      /\ DriverReturns(ReturnCapped(videos, max_videos), "no items")
                 ELSE /\ videos' = collected
                      /\ page_token' = next_page_token(r.response)
                      /\ IF next_page_token(r.response) = "None"
                         THEN DriverReturns(ReturnCapped(collected, max_videos),
                                            "no nextPageToken")
                         ELSE IF while_condition(collected, max_videos)
                         THEN UNCHANGED <<driver_pc, driver_result, driver_exit>>
                         ELSE DriverReturns(ReturnCapped(collected, max_videos), "while")

----------------------------------------------------------------------------
(* Channel batch loop: ChannelDataExtractor.get_channel_details *)

batch_size == 50

\* What channels.list can answer for a batch of ids: every channel once, no
\* channel, all but the first, or the first one twice.
ChannelShapes == {"all", "none", "all but first", "first twice"}

ChannelItems(shape, batch) ==
    LET all == [k \in 1..Len(batch) |-> [id |-> batch[k]]]
    IN  CASE shape = "all" -> all
          [] shape = "none" -> <<>>
          [] shape = "all but first" -> Tail(all)
          [] shape = "first twice" -> <<all[1]>> \o all

ChannelOutcomes(batch) ==
    {RemoteOk([items |-> ChannelItems(shape, batch), nextPageToken |-> "None"]) :
        shape \in ChannelShapes} \cup RemoteErrors

\* ChannelDataExtractor.extract_channel_data: channel_item.get('id', ''); the
\* snippet and statistics fields are copied through unread and are left out.
extract_channel_data(channel_item) == [channelId |-> channel_item.id]

\* for item in items: channels.append(self.extract_channel_data(item))
AppendChannels(cs, items) ==
    cs \o [k \in 1..Len(items) |-> extract_channel_data(items[k])]

\* channel_ids[i:i + batch_size]
Batch(ids, i) == SubSeq(ids, i + 1, Min(Len(ids), i + batch_size))

\* The mutant gives up the pass on any failure of a batch.
OnChannelRaised_stops(raised) == "break"

\* except QuotaExceededError: break; except Exception: continue.
OnChannelRaised(raised) ==
    IF raised = "QuotaExceededError" THEN "break" ELSE "continue"

ChannelIdle ==
    /\ chan_pc = "idle"
    /\ channel_ids = <<>>
    /\ batch_start = 0
    /\ channels = <<>>
    /\ chan_result = <<>>
    /\ chan_exit = "none"
    /\ batches = <<>>

\* The frame of a finished call is gone.
ChannelForgotten ==
    /\ chan_pc' = "idle"
    /\ channel_ids' = <<>>
    /\ batch_start' = 0
    /\ channels' = <<>>
    /\ chan_result' = <<>>
    /\ chan_exit' = "none"
    /\ batches' = <<>>

ChannelReturns(result, exit) ==
    /\ chan_pc' = "returned"
    /\ chan_result' = result
    /\ chan_exit' = exit

\* Lines 89-98: the empty-list return, the locals and the first range test.
ChannelEnter(ids) ==
    /\ channel_ids' = ids
    /\ batch_start' = 0
    /\ channels' = <<>>
    /\ batches' = <<>>
    /\ IF ids = <<>>
       THEN ChannelReturns(<<>>, "not channel_ids")
       ELSE /\ chan_pc' = "loop"
            /\ chan_result' = <<>>
            /\ chan_exit' = "none"

\* Lines 99-128: one pass of the for loop, with whatever ends the loop and
\* the return that follows it.
ChannelIteration ==
    /\ chan_pc = "loop"
    /\ UNCHANGED channel_ids
    /\ LET batch == Batch(channel_ids, batch_start)
           next == batch_start + batch_size
       IN
       IF ~can_make_request(quota_manager, "channels")
       THEN /\ ChannelReturns(channels, "quota pre-check")
            /\ UNCHANGED <<ledgerVars, batch_start, channels, batches>>
       ELSE \E remote \in ChannelOutcomes(batch) :
              LET r == client_get_channel_details(quota_manager, batch, remote)
                  collected == IF r.raised = "none"
                               THEN AppendChannels(channels, r.response.items)
                               ELSE channels
              IN
              /\ AfterCall(r)
              /\ channels' = collected
              /\ batches' = Append(batches, [id |-> r.request.id, ok |-> r.raised = "none"])
              /\ CASE r.raised # "none" /\ OnChannelRaised(r.raised) = "break" ->
                         /\ ChannelReturns(channels, "QuotaExceededError")
                         /\ UNCHANGED batch_start
                   [] r.raised # "none" /\ OnChannelRaised(r.raised) = "propagate" ->
                         /\ chan_pc' = "raised"
                         /\ chan_result' = <<>>
                         /\ chan_exit' = r.raised
                         /\ UNCHANGED batch_start
                   [] OTHER ->
                         /\ batch_start' = next
                         /\ IF next < Len(channel_ids)
                            THEN UNCHANGED <<chan_pc, chan_result, chan_exit>>
                            ELSE ChannelReturns(collected, "for")

----------------------------------------------------------------------------
(* The checkpoint file and the campaign's data *)

\* A Python dict with insertion order: a sequence of key/value entries.
DictKeys(d) == [k \in 1..Len(d) |-> d[k].key]

DictHas(d, key) == \E k \in 1..Len(d) : d[k].key = key

DictGet(d, key) == d[CHOOSE k \in 1..Len(d) : d[k].key = key].value

\* d[key] = value
DictPut(d, key, value) ==
    IF DictHas(d, key)
    THEN [k \in 1..Len(d) |-> IF d[k].key = key THEN [key |-> key, value |-> value] ELSE d[k]]
    ELSE Append(d, [key |-> key, value |-> value])

Range(seq) == {seq[k] : k \in 1..Len(seq)}

\* The mutant lists the query just finished once more.
completed_list_again(video_data) == Append(DictKeys(video_data), query)

\* list(all_video_data.keys())
completed_list(video_data) == DictKeys(video_data)

\* json.dump of the checkpoint: the text, as the chunks the encoder writes.
JsonDump(completed_queries, video_data) ==
    <<[tok |-> "{", val |-> <<>>],
      [tok |-> "completed_queries", val |-> completed_queries],
      [tok |-> "video_data", val |-> video_data],
      [tok |-> "last_updated", val |-> <<>>],
      [tok |-> "}", val |-> <<>>]>>

\* The mutant takes a text that holds both fields for a whole document.
JsonValid_lenient(text) == Len(text) >= 3

\* json.load accepts a text only if it is a whole document.
JsonValid(text) == Len(text) = 5 /\ text[1].tok = "{" /\ text[5].tok = "}"

JsonLoad(text) == [completed_queries |-> text[2].val, video_data |-> text[3].val]

EmptyProgress == [completed_queries |-> <<>>, video_data |-> <<>>]

NoFile == [exists |-> FALSE, text |-> <<>>]

\* What is on disk once the first k chunks of a text have been flushed.
Flushed(text, k) == [exists |-> TRUE, text |-> SubSeq(text, 1, k)]

\* Where a write that does not complete is cut: right after the open, or in
\* the middle of the text.
CutPoints == {0, 3}

\* ProgressTracker._load_progress and api.load_progress: the parsed file, or
\* the empty checkpoint when the file is missing or json.load raises.
load_progress(f) ==
    IF f.exists /\ JsonValid(f.text) THEN JsonLoad(f.text) ELSE EmptyProgress

RemainingQueries_all(all_queries, completed_queries) == all_queries

\* [q for q in all_queries if q not in completed]
RECURSIVE RemainingQueries(_, _)
RemainingQueries(all_queries, completed_queries) ==
    IF all_queries = <<>> THEN <<>>
    ELSE IF Head(all_queries) \in Range(completed_queries)
         THEN RemainingQueries(Tail(all_queries), completed_queries)
         ELSE <<Head(all_queries)>> \o RemainingQueries(Tail(all_queries), completed_queries)

\* sorted(list(all_channel_ids))
RECURSIVE Sorted(_)
Sorted(S) ==
    IF S = {} THEN <<>>
    ELSE LET least == CHOOSE x \in S : \A y \in S : x <= y
         IN  <<least>> \o Sorted(S \ {least})

\* The mutant does not leave out the empty channelId.
unique_channel_ids_keeps_empty(query_video_data) ==
    Sorted(UNION {{query_video_data[k].value[j].channelId :
                      j \in 1..Len(query_video_data[k].value)} :
                  k \in 1..Len(query_video_data)})

\* get_channels_for_multiple_queries: the non-empty channelIds of all videos
\* of all queries, sorted.
unique_channel_ids(query_video_data) ==
    Sorted(UNION {{query_video_data[k].value[j].channelId :
                      j \in 1..Len(query_video_data[k].value)} :
                  k \in 1..Len(query_video_data)} \ {NoId})

----------------------------------------------------------------------------
(* Checkpointed Campaign Runner: main.main and api.run_extraction_task.    *)
(* One campaign is followed, begun on whatever an earlier campaign left on *)
(* disk; the process may be killed at any step.                            *)

InsufficiencyThreshold == 4000

DefaultDailyQuota == 10000

InitialStatus ==
    [is_running |-> FALSE, current_query |-> "None", completed_queries |-> <<>>,
     quota_used |-> 0, quota_limit |-> 10000, quota_exceeded |-> FALSE, errors |-> <<>>]

\* update_status on the named fields, for the api runner only.
StatusUpdate(changed) ==
    status' = IF mode = "api"
              THEN [f \in DOMAIN status |->
                      IF f \in DOMAIN changed THEN changed[f] ELSE status[f]]
              ELSE status

\* One record as extract_video_data builds it.
SampleVideo == [videoId |-> "v1", channelId |-> 1]

\* The checkpoint an earlier campaign wrote after finishing the given queries.
CheckpointOf(keys) ==
    Flushed(JsonDump(keys, [k \in 1..Len(keys) |-> [key |-> keys[k], value |-> <<SampleVideo>>]]),
            5)

\* The videos of a query whose channels fill more than one batch: the
\* channelIds batch_size + 1 down to 1, then the first of them again, then a
\* video without a channelId.
ManyChannelVideos ==
    [k \in 1..(batch_size + 3) |->
        [videoId |-> "v1",
         channelId |-> IF k <= batch_size + 1 THEN batch_size + 2 - k
                       ELSE IF k = batch_size + 2 THEN batch_size + 1 ELSE NoId]]

\* A checkpoint of both queries, the first with videos of many channels.
FullCheckpoint ==
    Flushed(JsonDump(<<"q1", "q2">>, <<[key |-> "q1", value |-> ManyChannelVideos],
                                       [key |-> "q2", value |-> <<SampleVideo>>]>>), 5)

\* What a write that did not complete can have left on disk.
CorruptFiles == {Flushed(CheckpointOf(<<"q1">>).text, k) : k \in CutPoints}

\* What an earlier campaign can have left on disk: nothing, a file cut off
\* while it was written, or a whole checkpoint.
InitialFiles ==
    {NoFile} \cup CorruptFiles
    \cup {CheckpointOf(keys) : keys \in {<<"q1">>, <<"q2">>, <<"q1", "q2">>}}
    \cup {FullCheckpoint}

\* No campaign has started: the runner of the given entry point is idle and
\* the progress file is what an earlier run left.
CampaignIdle(entry, onDisk) ==
    /\ mode = entry
    /\ camp_pc = "idle"
    /\ tasks = 0
    /\ queries = <<>>
    /\ videos_per_query = 0
    /\ daily_quota = 0
    /\ progress = EmptyProgress
    /\ remaining_queries = <<>>
    /\ qi = 0
    /\ all_video_data = <<>>
    /\ file = onDisk
    /\ status = InitialStatus
    /\ attempted = <<>>
    /\ finished = <<>>

\* The mutant's last update leaves is_running as it is.
FinalStatus_keeps_running == [current_query |-> "None"]

\* api.run_extraction_task lines 274-278: the last update_status.
FinalStatus == [is_running |-> FALSE, current_query |-> "None"]

\* api.run_extraction_task lines 280-285: the outer except clause.
FatalStatus(errors) == [is_running |-> FALSE, errors |-> Append(errors, "Fatal error")]

\* Sequences of distinct queries.
QueryLists == {<<"q1", "q2">>, <<"q2", "q1">>}

\* Daily quotas around the insufficiency threshold, and two small ones.
CampaignQuotas ==
    {InsufficiencyThreshold + 100 * (b - 1) : b \in 0..MaxQueryBudget} \cup {150, 500}

\* YouTubeAPIClient(daily_quota=...), the extractors, and the checkpoint
\* loaded: the locals of a fresh campaign.
FreshCampaign(all_queries, quota) ==
    /\ quota_manager' = NewQuotaManager(quota)
    /\ charged' = NoCharges
    /\ last_call' = NoCall
    /\ UNCHANGED call_bit
    /\ DriverForgotten
    /\ ChannelForgotten
    /\ progress' = load_progress(file)
    /\ all_video_data' = load_progress(file).video_data
    /\ remaining_queries' =
          RemainingQueries(all_queries, load_progress(file).completed_queries)
    /\ qi' = 1
    /\ attempted' = <<>>
    /\ finished' = <<>>
    /\ camp_pc' = "loop"
    /\ UNCHANGED <<mode, tasks, file>>

\* main.main, lines 110-139, run as a new process.
CliBegin ==
    /\ UNCHANGED timeVars
    /\ mode = "cli"
    /\ camp_pc = "idle"
    /\ queries' = <<"q1", "q2">>
    /\ videos_per_query' = MaxTarget
    /\ daily_quota' = DefaultDailyQuota
    /\ FreshCampaign(<<"q1", "q2">>, DefaultDailyQuota)
    /\ UNCHANGED status

\* The event loop runs a request handler only while no task is running on
\* it: before a task is queued (the queued task begins as soon as the
\* response is sent), and while the task awaits asyncio.sleep(0.1) after a
\* query (api.run_extraction_task line 214).
HandlerCanRun == mode = "api" /\ camp_pc \in {"idle", "sleep"}

\* api.start_extraction: rejected while is_running, else a task is queued.
\* The first task accepted is the one followed; one accepted while that one
\* has not ended is only counted.
StartExtraction(lists, quotas) ==
    /\ UNCHANGED timeVars
    /\ HandlerCanRun
    /\ ~status.is_running
    /\ tasks < 2
    /\ tasks' = tasks + 1
    /\ IF camp_pc = "idle"
       THEN /\ \E qs \in lists, quota \in quotas :
                  /\ queries' = qs
                  /\ daily_quota' = quota
            /\ videos_per_query' = MaxTarget
            /\ camp_pc' = "queued"
       ELSE UNCHANGED <<queries, daily_quota, videos_per_query, camp_pc>>
    /\ UNCHANGED <<ledgerVars, driverVars, chanVars, mode, progress,
                   remaining_queries, qi, all_video_data, file, status, attempted,
                   finished>>

ApiStart == StartExtraction(QueryLists, CampaignQuotas)

\* api.stop_extraction: rejected unless is_running, else the flag is cleared.
ApiStop ==
    /\ UNCHANGED timeVars
    /\ HandlerCanRun
    /\ status.is_running
    /\ StatusUpdate([is_running |-> FALSE, current_query |-> "None"])
    /\ UNCHANGED <<ledgerVars, driverVars, chanVars, mode, camp_pc, tasks, queries,
                   videos_per_query, daily_quota, progress, remaining_queries, qi,
                   all_video_data, file, attempted, finished>>

\* api.run_extraction_task, lines 158-178: the first update_status and the
\* construction of the components, which succeeds, or raises (no API key)
\* into the outer except clause of lines 280-285.
ApiBegin ==
    /\ UNCHANGED timeVars
    /\ mode = "api"
    /\ camp_pc = "queued"
    /\ UNCHANGED <<queries, videos_per_query, daily_quota>>
    /\ \/ /\ StatusUpdate([is_running |-> TRUE, errors |-> <<>>])
          /\ FreshCampaign(queries, daily_quota)
       \/ /\ StatusUpdate(FatalStatus(<<>>))
          /\ camp_pc' = "failed"
          /\ tasks' = tasks - 1
          /\ UNCHANGED <<ledgerVars, driverVars, chanVars, mode, progress,
                         remaining_queries, qi, all_video_data, file, attempted,
                         finished>>

\* The mutant never finds the quota insufficient.
InsufficientQuota_never(quota_info) == FALSE

\* if quota_info['remaining'] < 4000:
InsufficientQuota(quota_info) == quota_info.remaining < InsufficiencyThreshold

\* The head of the for loop up to the call of search_videos: main.main lines
\* 144-161, api.run_extraction_task lines 181-198.
QueryBegin ==
    /\ UNCHANGED timeVars
    /\ camp_pc = "loop"
    /\ UNCHANGED <<ledgerVars, chanVars, mode, tasks, queries, videos_per_query,
                   daily_quota, progress, remaining_queries, qi, all_video_data, file,
                   finished>>
    /\ IF qi > Len(remaining_queries)
       THEN /\ camp_pc' = "after loop"
            /\ UNCHANGED <<driverVars, status, attempted>>
       ELSE LET q == remaining_queries[qi]
                quota_info == get_quota_usage(quota_manager)
            IN  IF InsufficientQuota(quota_info)
                THEN /\ StatusUpdate([current_query |-> q,
                                      quota_used |-> quota_info.used,
                                      errors |-> Append(status.errors,
                                                        "Insufficient quota remaining")])
                     /\ camp_pc' = "after loop"
                     /\ UNCHANGED <<driverVars, attempted>>
                ELSE /\ StatusUpdate([current_query |-> q,
                                      quota_used |-> quota_info.used])
                     /\ DriverEnter(q, videos_per_query)
                     /\ attempted' = Append(attempted, q)
                     /\ camp_pc' = "driver"

\* In a campaign the remote service has at most MaxPages pages for a query,
\* and its items are of two kinds: one with a videoId and one without an id.
CampaignItems == {x \in RawItems : x.id.form = "absent" \/ x.id.videoId = "v1"}

CampaignSearchOutcomes ==
    {RemoteOk([items |-> p, nextPageToken |-> t]) :
        p \in SeqsUpTo(CampaignItems, MaxPageItems),
        t \in IF page_no + 1 < MaxPages THEN {"t1", "None"} ELSE {"None"}}
    \cup RemoteErrors

\* search_videos running inside the campaign.
QuerySearch ==
    /\ UNCHANGED timeVars
    /\ camp_pc = "driver"
    /\ DriverIteration(CampaignSearchOutcomes)
    /\ UNCHANGED <<chanVars, campVars>>

\* The next iteration of the for loop.
NextQuery ==
    /\ qi' = qi + 1
    /\ camp_pc' = "loop"

\* A failed write of the checkpoint: save_progress logs it and returns; in
\* the api runner it is the per-query except Exception clause that logs it.
PersistFailed ==
    /\ StatusUpdate([errors |-> Append(status.errors, "Error with query")])
    /\ NextQuery

\* After search_videos returned: all_video_data[query] = videos, then the
\* checkpoint is saved; this step ends with open(progress_file, 'w'), which
\* truncates the file or fails. main.main lines 162-166 and save_progress
\* lines 78-85, api.run_extraction_task lines 199-207.
QueryRecord ==
    /\ UNCHANGED timeVars
    /\ camp_pc = "driver"
    /\ driver_pc = "returned"
    /\ all_video_data' = DictPut(all_video_data, query, driver_result)
    /\ finished' = Append(finished, [key |-> query, value |-> driver_result,
                                     exit |-> driver_exit])
    /\ UNCHANGED <<ledgerVars, driverVars, chanVars, mode, tasks, queries,
                   videos_per_query, daily_quota, progress, remaining_queries, attempted>>
    /\ \/ /\ file' = Flushed(<<>>, 0)
          /\ StatusUpdate([completed_queries |-> DictKeys(all_video_data')])
          /\ camp_pc' = "dump"
          /\ UNCHANGED qi
       \/ /\ UNCHANGED file
          /\ StatusUpdate([completed_queries |-> DictKeys(all_video_data'),
                           errors |-> Append(status.errors, "Error with query")])
          /\ NextQuery

\* json.dump into the open file and its close: the whole text reaches the
\* disk, or the write fails after some chunks of it did.
PersistDump ==
    /\ UNCHANGED timeVars
    /\ camp_pc = "dump"
    /\ UNCHANGED <<ledgerVars, driverVars, chanVars, mode, tasks, queries,
                   videos_per_query, daily_quota, progress, remaining_queries,
                   all_video_data, attempted, finished>>
    /\ LET text == JsonDump(completed_list(all_video_data), all_video_data)
       IN  \/ /\ file' = Flushed(text, Len(text))
              /\ qi' = qi + 1
              /\ camp_pc' = IF mode = "api" THEN "sleep" ELSE "loop"
              /\ UNCHANGED status
           \/ /\ \E k \in CutPoints : file' = Flushed(text, k)
              /\ PersistFailed

\* api.run_extraction_task line 214: asyncio.sleep(0.1) is over and the task
\* goes on with the next iteration.
Wake ==
    /\ UNCHANGED timeVars
    /\ camp_pc = "sleep"
    /\ camp_pc' = "loop"
    /\ UNCHANGED <<ledgerVars, driverVars, chanVars, mode, tasks, queries,
                   videos_per_query, daily_quota, progress, remaining_queries, qi,
                   all_video_data, file, status, attempted, finished>>

\* The mutant enters the channel pass whatever was collected.
ChannelPassSkipped_never(runner, video_data, st) == FALSE

\* api.run_extraction_task line 236, negated:
\* `if all_video_data and not extraction_status.get("quota_exceeded", False)`;
\* main.main calls the pass without a test (line 200).
ChannelPassSkipped(runner, video_data, st) ==
    runner = "api" /\ (video_data = <<>> \/ st.quota_exceeded)

\* After the loop: the channel pass is entered (api: only if there is video
\* data and quota_exceeded is not set). main.main lines 199-200,
\* api.run_extraction_task lines 236-239.
AfterLoop ==
    /\ UNCHANGED timeVars
    /\ camp_pc = "after loop"
    /\ UNCHANGED <<ledgerVars, driverVars, mode, tasks, queries, videos_per_query,
                   daily_quota, progress, remaining_queries, qi, all_video_data, file,
                   attempted, finished>>
    /\ IF ChannelPassSkipped(mode, all_video_data, status)
       THEN /\ camp_pc' = "finish"
            /\ UNCHANGED <<chanVars, status>>
       ELSE /\ StatusUpdate([current_query |-> "Collecting channel data..."])
            /\ ChannelEnter(unique_channel_ids(all_video_data))
            /\ camp_pc' = "channels"

\* get_channel_details running inside the campaign.
ChannelFetch ==
    /\ UNCHANGED timeVars
    /\ camp_pc = "channels"
    /\ ChannelIteration
    /\ UNCHANGED <<driverVars, campVars>>

\* The end of the campaign: the export, then (api) the last update_status,
\* (cli) the removal of the checkpoint once every phrase has video data.
\* main.main lines 206-255, api.run_extraction_task lines 240-278.
Finish ==
    /\ UNCHANGED timeVars
    /\ \/ camp_pc = "finish"
       \/ camp_pc = "channels" /\ chan_pc = "returned"
    /\ camp_pc' = "done"
    /\ \/ /\ StatusUpdate(FinalStatus)
          /\ file' = IF mode = "cli" /\ Len(all_video_data) = Len(queries)
                     THEN NoFile ELSE file
       \/ \* an export raises: api appends an error and goes on to the last
          \* update; main.main is left by the exception
          /\ camp_pc = "channels"
          /\ StatusUpdate([f \in DOMAIN FinalStatus \cup {"errors"} |->
                             IF f = "errors"
                             THEN Append(status.errors, "Channel collection error")
                             ELSE FinalStatus[f]])
          /\ UNCHANGED file
    /\ tasks' = IF mode = "api" THEN tasks - 1 ELSE tasks
    /\ UNCHANGED <<ledgerVars, driverVars, chanVars, mode, queries,
                   videos_per_query, daily_quota, progress, remaining_queries, qi,
                   all_video_data, attempted, finished>>

\* The process is killed: its memory is gone, and what json.dump had
\* written so far stays on disk.
Kill ==
    /\ UNCHANGED timeVars
    /\ camp_pc \in {"loop", "driver", "dump", "sleep", "after loop", "channels", "finish"}
    /\ camp_pc' = "dead"
    /\ tasks' = 0
    /\ IF camp_pc = "dump"
       THEN \E k \in CutPoints :
               file' = Flushed(JsonDump(completed_list(all_video_data), all_video_data), k)
       ELSE UNCHANGED file
    /\ quota_manager' = NewQuotaManager(0)
    /\ charged' = NoCharges
    /\ last_call' = NoCall
    /\ UNCHANGED call_bit
    /\ DriverForgotten
    /\ ChannelForgotten
    /\ status' = InitialStatus
    /\ progress' = EmptyProgress
    /\ remaining_queries' = <<>>
    /\ qi' = 0
    /\ all_video_data' = <<>>
    /\ attempted' = <<>>
    /\ finished' = <<>>
    /\ UNCHANGED <<mode, queries, videos_per_query, daily_quota>>

Init ==
    /\ InitLedger(0)
    /\ DriverIdle
    /\ ChannelIdle
    /\ \E entry \in {"cli", "api"}, onDisk \in InitialFiles : CampaignIdle(entry, onDisk)

Next ==
    \/ CliBegin
    \/ ApiStart
    \/ ApiStop
    \/ ApiBegin
    \/ QueryBegin
    \/ QuerySearch
    \/ QueryRecord
    \/ PersistDump
    \/ Wake
    \/ AfterLoop
    \/ ChannelFetch
    \/ Finish
    \/ Kill

Spec == Init /\ [][Next]_vars

\* The campaigns of the api runner alone, started with no checkpoint or with
\* the checkpoint of a campaign that finished q1.
InitApi ==
    /\ InitLedger(0)
    /\ DriverIdle
    /\ ChannelIdle
    /\ \E onDisk \in {NoFile, CheckpointOf(<<"q1">>)} : CampaignIdle("api", onDisk)

\* start_extraction for one list of queries, with a daily quota that is
\* spent below the threshold by the first search and one that is not.
ApiStartOne ==
    StartExtraction({<<"q1", "q2">>},
                    {InsufficiencyThreshold, InsufficiencyThreshold + 100})

NextApi ==
    \/ ApiStartOne
    \/ ApiStop
    \/ ApiBegin
    \/ QueryBegin
    \/ QuerySearch
    \/ QueryRecord
    \/ PersistDump
    \/ Wake
    \/ AfterLoop
    \/ ChannelFetch
    \/ Finish
    \/ Kill

\* A step of run_extraction_task.
TaskStep ==
    \/ ApiBegin
    \/ QueryBegin
    \/ QuerySearch
    \/ QueryRecord
    \/ PersistDump
    \/ Wake
    \/ AfterLoop
    \/ ChannelFetch
    \/ Finish

\* The event loop keeps running a task it has accepted for as long as the
\* process lives.
SpecApiFair == InitApi /\ [][NextApi]_vars /\ WF_vars(TaskStep)

----------------------------------------------------------------------------
(* The command-line runner alone: one run of main.main, which the user may *)
(* interrupt, begun on the progress file an earlier run or an api campaign *)
(* left (api.run_extraction_task writes the same extraction_progress.json, *)
(* for whatever query list it was given).                                  *)

\* The searches after which less than the insufficiency threshold remains of
\* the default daily quota.
BulkPages == (DefaultDailyQuota - InsufficiencyThreshold) \div COSTS["search"] + 1

\* A page whose only item has no videoId, with a successor.
DroppedPage ==
    [items |-> <<[id |-> [form |-> "absent", videoId |-> ""], channelId |-> NoId]>>,
     nextPageToken |-> "t1"]

\* The Ledger after n more charged searches: record_request('search') n times.
AfterSearches(qm, n) ==
    [qm EXCEPT !.used_quota = @ + n * Cost("search"), !.request_count = @ + n]

\* BulkPages passes of the loop of search_videos in a row, each answered
\* with a page of which no item is kept and a successor token: every pass
\* is charged, videos stays as it is and the loop goes on.
QuerySearchRun ==
    /\ UNCHANGED timeVars
    /\ camp_pc = "driver"
    /\ driver_pc = "loop"
    /\ page_no = 0
    /\ \A n \in 0..(BulkPages - 1) :
          can_make_request(AfterSearches(quota_manager, n), "search")
    /\ LET r == client_search_videos(AfterSearches(quota_manager, BulkPages - 1), query,
                                     Min(videos_per_page, max_videos - Len(videos)),
                                     "t1", RemoteOk(DroppedPage))
       IN  /\ quota_manager' = r.qm
           /\ charged' = [charged EXCEPT !["search"] = @ + BulkPages]
           /\ last_call' = [op |-> r.op, request |-> r.request, events |-> r.events,
                            raised |-> r.raised, received |-> Len(r.response.items),
                            next_token |-> r.response.nextPageToken]
           /\ call_bit' = (call_bit + BulkPages) % 2
           /\ videos' = AppendValid(videos, r.response.items)
           /\ page_token' = next_page_token(r.response)
           /\ page_no' = page_no + BulkPages
    /\ UNCHANGED <<driver_pc, query, max_videos, entry_budget, driver_result, driver_exit>>
    /\ UNCHANGED <<chanVars, campVars>>

\* main.main lines 170-181: KeyboardInterrupt (or an exception that leaves
\* the loop body) reaches the except clause, which saves the progress with
\* the keys of all_video_data and ends the run. save_progress writes the
\* whole text, or fails after some chunks of it, or fails to open the file;
\* it logs a failure and returns.
Interrupt ==
    /\ UNCHANGED timeVars
    /\ mode = "cli"
    /\ camp_pc \in {"loop", "driver", "dump"}
    /\ camp_pc' = "interrupted"
    /\ LET text == JsonDump(completed_list(all_video_data), all_video_data)
       IN  \/ file' = Flushed(text, Len(text))
           \/ \E k \in CutPoints : file' = Flushed(text, k)
           \/ UNCHANGED file
    /\ UNCHANGED <<ledgerVars, driverVars, chanVars, mode, tasks, queries,
                   videos_per_query, daily_quota, progress, remaining_queries, qi,
                   all_video_data, status, attempted, finished>>

\* No file, a checkpoint of an earlier run of main.main that finished q1, or
\* one of an api campaign over the query list <<"q3">>.
CliFiles == {NoFile, CheckpointOf(<<"q1">>), CheckpointOf(<<"q3">>)}

InitCli ==
    /\ InitLedger(0)
    /\ DriverIdle
    /\ ChannelIdle
    /\ \E onDisk \in CliFiles : CampaignIdle("cli", onDisk)

NextCli ==
    \/ CliBegin
    \/ QueryBegin
    \/ QuerySearch
    \/ QuerySearchRun
    \/ QueryRecord
    \/ PersistDump
    \/ AfterLoop
    \/ ChannelFetch
    \/ Finish
    \/ Interrupt

SpecCli == InitCli /\ [][NextCli]_vars

----------------------------------------------------------------------------
(* Client-level specification: an owner of one YouTubeAPIClient calls the  *)
(* three Gateway operations and reset_quota in any order.                  *)

DailyLimits == {100 * s + u : s \in 0..MaxSearchBudget, u \in 0..MaxUnitBudget}

IdLists == {[i \in 1..n |-> i] : n \in 0..MaxIds}

\* A response to a direct call: its content is not looked at by the client.
AnyResponse == [items |-> <<>>, nextPageToken |-> "None"]

RemoteOutcomes == {RemoteOk(AnyResponse)} \cup RemoteErrors

InitClient ==
    /\ \E limit \in DailyLimits : InitLedger(limit)
    /\ DriverIdle
    /\ ChannelIdle
    /\ CampaignIdle("cli", NoFile)

\* A direct call r of a Gateway operation, and what request.execute() did
\* in it if the call got that far.
DirectCall(r, remote) ==
    /\ AfterCall(r)
    /\ last_remote' = IF r.events = <<>> THEN last_remote ELSE Outcome(remote)
    /\ UNCHANGED <<governor, spacing, asked>>

ClientSearch ==
    /\ quota_manager.request_count < MaxRequests
    /\ \E remote \in RemoteOutcomes :
          DirectCall(client_search_videos(quota_manager, "q1", 50, "None", remote), remote)
    /\ UNCHANGED <<driverVars, chanVars, campVars>>

ClientVideos ==
    /\ quota_manager.request_count < MaxRequests
    /\ \E ids \in IdLists, remote \in RemoteOutcomes :
          DirectCall(client_get_video_details(quota_manager, ids, remote), remote)
    /\ UNCHANGED <<driverVars, chanVars, campVars>>

ClientChannels ==
    /\ quota_manager.request_count < MaxRequests
    /\ \E ids \in IdLists, remote \in RemoteOutcomes :
          DirectCall(client_get_channel_details(quota_manager, ids, remote), remote)
    /\ UNCHANGED <<driverVars, chanVars, campVars>>

ClientReset ==
    /\ UNCHANGED timeVars
    /\ quota_manager' = reset_quota(quota_manager)
    /\ charged' = NoCharges
    /\ UNCHANGED <<last_call, call_bit, driverVars, chanVars, campVars>>

NextClient == ClientSearch \/ ClientVideos \/ ClientChannels \/ ClientReset

SpecClient == InitClient /\ [][NextClient]_vars

----------------------------------------------------------------------------
(* Ledger specification: the methods of one QuotaManager, called in any    *)
(* order; record_request as the Gateway calls it, after a pre-check that   *)
(* passed.                                                                 *)

\* The Gateway's record_request(operation) after a remote call that returned.
LedgerCharge ==
    /\ quota_manager.request_count < MaxRequests
    /\ \E operation \in Operations :
          /\ can_make_request(quota_manager, operation)
          /\ quota_manager' = record_request(quota_manager, operation)
          /\ charged' = [charged EXCEPT ![operation] = @ + 1]
    /\ UNCHANGED <<last_call, call_bit, timeVars, driverVars, chanVars, campVars>>

\* can_make_request(operation), get_remaining_quota() and get_quota_usage(),
\* and what they return.
LedgerAsk ==
    /\ \E operation \in Operations :
          asked' = [bit |-> 1 - asked.bit,
                    operation |-> operation,
                    can |-> can_make_request(quota_manager, operation),
                    remaining |-> get_remaining_quota(quota_manager),
                    usage |-> get_quota_usage(quota_manager)]
    /\ UNCHANGED <<ledgerVars, governor, spacing, last_remote, driverVars, chanVars,
                   campVars>>

NextLedger == LedgerCharge \/ LedgerAsk \/ ClientReset

SpecLedger == InitClient /\ [][NextLedger]_vars

----------------------------------------------------------------------------
(* Gateway timing specification: the three Gateway operations on one       *)
(* client, with the time each remote call takes and the time that passes   *)
(* between calls.                                                          *)

Durations == 0..MaxDuration

\* A Gateway call r in which request.execute() took duration ticks. If the
\* call got past the pre-check, _wait_for_rate_limit sleeps, stamps
\* last_request_time, and the remote call is issued and returns or fails.
TimedCall(r, duration) ==
    /\ AfterCall(r)
    /\ UNCHANGED <<last_remote, asked>>
    /\ IF r.events = <<>>
       THEN UNCHANGED <<governor, spacing>>
       ELSE LET slept == sleep_time(governor.since_request)
            IN  /\ spacing' = [first |-> ~governor.called,
                               since_issue |-> Age(governor.since_request + slept),
                               since_return |-> Age(governor.since_return + slept)]
                /\ governor' = [since_request |-> Age(duration), since_return |-> 0,
                                called |-> TRUE]

\* request.execute() returns, or fails after some time.
TimedOutcomes ==
    {RemoteOk(AnyResponse), [kind |-> "Exception", status |-> 0, marker |-> FALSE]}

\* An empty list, which returns before the pre-check, and a list to ask for.
TimedIdLists == {<<>>, <<1>>}

InitGovernor ==
    /\ \E searches \in 1..MaxSearchBudget : InitLedger(100 * searches)
    /\ DriverIdle
    /\ ChannelIdle
    /\ CampaignIdle("cli", NoFile)

GovernedSearch ==
    /\ quota_manager.request_count < MaxTimedCalls
    /\ \E remote \in TimedOutcomes, duration \in Durations :
          TimedCall(client_search_videos(quota_manager, "q1", 50, "None", remote),
                    duration)
    /\ UNCHANGED <<driverVars, chanVars, campVars>>

GovernedVideos ==
    /\ quota_manager.request_count < MaxTimedCalls
    /\ \E ids \in TimedIdLists, remote \in TimedOutcomes, duration \in Durations :
          TimedCall(client_get_video_details(quota_manager, ids, remote), duration)
    /\ UNCHANGED <<driverVars, chanVars, campVars>>

GovernedChannels ==
    /\ quota_manager.request_count < MaxTimedCalls
    /\ \E ids \in TimedIdLists, remote \in TimedOutcomes, duration \in Durations :
          TimedCall(client_get_channel_details(quota_manager, ids, remote), duration)
    /\ UNCHANGED <<driverVars, chanVars, campVars>>

\* One tick passes while the owner of the client does something else.
Tick ==
    /\ governor.since_request < MaxAge \/ governor.since_return < MaxAge
    /\ governor' = [governor EXCEPT !.since_request = Age(@ + 1),
                                    !.since_return = Age(@ + 1)]
    /\ UNCHANGED <<ledgerVars, spacing, last_remote, asked, driverVars, chanVars,
                   campVars>>

NextGovernor == GovernedSearch \/ GovernedVideos \/ GovernedChannels \/ Tick

SpecGovernor == InitGovernor /\ [][NextGovernor]_vars

----------------------------------------------------------------------------
(* Extractor-level specification: on one client, search_videos and        *)
(* get_channel_details are called any number of times, each call run to    *)
(* its return before the next one starts (api.fetch_custom_query does so). *)
(* A call's locals are gone once another call has started.                 *)

Queries == {"q1", "q2"}

Targets == 0..MaxTarget

\* 1..n for n = 0, 1, and around every multiple of batch_size.
ChannelIdLists ==
    {[k \in 1..n |-> k] :
        n \in {0, 1} \cup {batch_size * b + d : b \in 1..MaxBatches, d \in {0, 1}}}

InitExtractors ==
    /\ \E limit \in DailyLimits : InitLedger(limit)
    /\ DriverIdle
    /\ ChannelIdle
    /\ CampaignIdle("cli", NoFile)

NoCallRunning ==
    /\ driver_pc \in {"idle", "returned"}
    /\ chan_pc \in {"idle", "returned"}
    /\ quota_manager.request_count < MaxPriorRequests

DriverCall ==
    /\ UNCHANGED timeVars
    /\ NoCallRunning
    /\ \E target \in Targets : DriverEnter("q1", target)
    /\ ChannelForgotten
    /\ UNCHANGED <<ledgerVars, campVars>>

DriverStep ==
    /\ UNCHANGED timeVars
    /\ DriverIteration(SearchOutcomes)
    /\ UNCHANGED <<chanVars, campVars>>

ChannelCall ==
    /\ UNCHANGED timeVars
    /\ NoCallRunning
    /\ \E ids \in ChannelIdLists : ChannelEnter(ids)
    /\ DriverForgotten
    /\ UNCHANGED <<ledgerVars, campVars>>

ChannelStep ==
    /\ UNCHANGED timeVars
    /\ ChannelIteration
    /\ UNCHANGED <<driverVars, campVars>>

NextExtractors == DriverCall \/ DriverStep \/ ChannelCall \/ ChannelStep

SpecExtractors == InitExtractors /\ [][NextExtractors]_vars

----------------------------------------------------------------------------
(* Paging specification: search_videos alone on one client, also with a    *)
(* target beyond a full page, against a remote service whose pages hold    *)
(* one kind of valid item and one kind of item without a video id.         *)

\* Small targets, and one beyond a full page.
PagingTargets == 0..MaxTarget \cup {videos_per_page + 1}

PagingItems == {x \in RawItems : x.id.form = "absent" \/ x.id.videoId = "v1"}

PagingOutcomes ==
    {RemoteOk([items |-> p, nextPageToken |-> t]) :
        p \in SeqsUpTo(PagingItems, MaxPageItems), t \in PageTokens \cup {"None"}}
    \cup RemoteErrors

\* Daily limits on and just above the multiples of the cost of a search.
PagingLimits == {100 * s + u : s \in 0..MaxSearchBudget, u \in {0, 1}}

InitPaging ==
    /\ \E limit \in PagingLimits : InitLedger(limit)
    /\ DriverIdle
    /\ ChannelIdle
    /\ CampaignIdle("cli", NoFile)

PagingCall ==
    /\ NoCallRunning
    /\ \E target \in PagingTargets : DriverEnter("q1", target)
    /\ UNCHANGED <<ledgerVars, timeVars, chanVars, campVars>>

PagingStep ==
    /\ DriverIteration(PagingOutcomes)
    /\ UNCHANGED <<timeVars, chanVars, campVars>>

NextPaging == PagingCall \/ PagingStep

SpecPaging == InitPaging /\ [][NextPaging]_vars

\* search_videos is a sequential loop: once called it keeps running.
SpecPagingFair == SpecPaging /\ WF_vars(PagingStep)

----------------------------------------------------------------------------
(* Properties *)

NonEmptyRequest(c) == c.op = "search" \/ c.request.id # <<>>

\* C1: after any sequence of successful charges, used_quota is the sum of the
\* fixed costs of the charged operations (search 100, videos 1, channels 1),
\* request_count is the number of charges, and can_make_request(op) is false
\* exactly when used_quota + cost(op) would exceed daily_limit.
C1_LedgerIsSumOfCharges ==
    /\ quota_manager.used_quota =
          100 * charged["search"] + 1 * charged["videos"] + 1 * charged["channels"]
    /\ quota_manager.request_count =
          charged["search"] + charged["videos"] + charged["channels"]
    /\ (~can_make_request(quota_manager, "search"))
          <=> (quota_manager.used_quota + 100 > quota_manager.daily_limit)
    /\ \A op \in {"videos", "channels"} :
          (~can_make_request(quota_manager, op))
             <=> (quota_manager.used_quota + 1 > quota_manager.daily_limit)

C1_Witness ==
    /\ charged["search"] = 1
    /\ charged["videos"] = 1
    /\ ~can_make_request(quota_manager, "search")
    /\ can_make_request(quota_manager, "channels")

\* C2: a Gateway call whose remote call fails (quota rejection or any other
\* error) leaves used_quota and request_count as they were before the call.
C2_FailedCallNotCharged ==
    [][(call_bit' # call_bit /\ last_call'.raised # "none")
          => /\ quota_manager'.used_quota = quota_manager.used_quota
             /\ quota_manager'.request_count = quota_manager.request_count]_vars

C2_Witness ==
    /\ last_call.op = "channels"
    /\ last_call.raised = "HttpError"
    /\ last_call.events = <<"throttle", "remote">>
    /\ quota_manager.used_quota = 101

\* C3: a Gateway operation invoked with a non-empty request while
\* can_make_request(op) is false fails with QuotaExceededError without
\* throttling, without a remote call and without changing the Ledger.
C3_GatewayFailsClosed ==
    [][(/\ call_bit' # call_bit
        /\ NonEmptyRequest(last_call')
        /\ ~can_make_request(quota_manager, last_call'.op))
          => /\ last_call'.raised = "QuotaExceededError"
             /\ last_call'.events = <<>>
             /\ quota_manager' = quota_manager]_vars

C3_Witness ==
    /\ last_call.op = "videos"
    /\ last_call.raised = "QuotaExceededError"
    /\ last_call.events = <<>>
    /\ ~can_make_request(quota_manager, "videos")
    /\ quota_manager.used_quota > 0

\* C4: search_videos never returns more than max_videos records, on every
\* exit path and however many items the last page held.
C4_DriverCapsOutput ==
    driver_pc = "returned" => Len(driver_result) <= max_videos

C4_Witness ==
    /\ driver_pc = "returned"
    /\ Len(videos) > max_videos
    /\ Len(driver_result) = max_videos
    /\ max_videos > 0

\* C5: the list search_videos returns holds no record with an empty videoId.
C5_NoEmptyVideoId ==
    driver_pc = "returned"
       => \A k \in 1..Len(driver_result) : driver_result[k].videoId # ""

C5_Witness ==
    /\ driver_pc = "returned"
    /\ driver_exit = "no nextPageToken"
    /\ quota_manager.request_count = 1
    /\ last_call.received = 2
    /\ max_videos = 2
    /\ Len(driver_result) = 1

QuotaExits == {"quota pre-check", "QuotaExceededError"}

\* C6: a quota event (local pre-check refusal or QuotaExceededError from the
\* Gateway) never makes search_videos or get_channel_details raise; each
\* returns every record it had accumulated before the event.
C6_QuotaNeverEscalates ==
    /\ driver_pc # "raised"
    /\ chan_pc # "raised"
    /\ driver_exit \in QuotaExits => (driver_pc = "returned" /\ driver_result = videos)
    /\ chan_exit \in QuotaExits => (chan_pc = "returned" /\ chan_result = channels)

C6_Witness ==
    /\ chan_exit = "QuotaExceededError"
    /\ chan_pc = "returned"
    /\ Len(chan_result) = 50
    /\ can_make_request(quota_manager, "channels")

\* The queries of the campaign that the checkpoint loaded at its begin does
\* not list as completed, in the order of the query list.
NotYetCompleted ==
    SelectSeq(queries, LAMBDA q : \A k \in 1..Len(progress.completed_queries) :
                                     progress.completed_queries[k] # q)

LoopOver == camp_pc \in {"after loop", "channels", "finish", "done"}

\* C7: a campaign resumed on a checkpoint with N completed queries skips
\* exactly those and attempts only the others, one at a time, in the order
\* of the original query list; unless the budget check stops it, it attempts
\* all of them.
C7_ResumeSkipsCompleted ==
    /\ Len(attempted) <= Len(NotYetCompleted)
    /\ attempted = SubSeq(NotYetCompleted, 1, Len(attempted))
    /\ (LoopOver /\ get_remaining_quota(quota_manager) >= InsufficiencyThreshold)
          => attempted = NotYetCompleted

C7_Witness ==
    /\ camp_pc = "after loop"
    /\ queries = <<"q1", "q2">>
    /\ progress.completed_queries = <<"q1">>
    /\ attempted = <<"q2">>

OnDisk == load_progress(file)

\* C8: whenever the runner begins a query or has ended the query loop, the
\* checkpoint file holds every query the runner has finished in this
\* campaign, with its records.
C8_CheckpointHoldsFinished ==
    camp_pc \in {"loop", "after loop"}
       => \A k \in 1..Len(finished) :
             /\ file.exists
             /\ JsonValid(file.text)
             /\ finished[k].key \in Range(OnDisk.completed_queries)
             /\ DictHas(OnDisk.video_data, finished[k].key)
             /\ DictGet(OnDisk.video_data, finished[k].key) = finished[k].value

\* C9: a persist takes the file from one whole checkpoint to another: at no
\* point of it does the disk hold a cut or partly written file.
C9_PersistIsAtomic ==
    [][file' # file => (file'.exists => JsonValid(file'.text))]_vars

NaturalExits == {"while", "no nextPageToken", "no items"}

\* C10: every query a persisted checkpoint lists in completed_queries was
\* paginated until max_videos was reached or the results ran out, not cut
\* short by quota or by a failure.
C10_CompletedAreComplete ==
    (file.exists /\ JsonValid(file.text))
       => \A k \in 1..Len(finished) :
             finished[k].key \in Range(OnDisk.completed_queries)
                => finished[k].exit \in NaturalExits

\* C15: the channel pass returns at most one record per channelId, whatever
\* the remote service answers.
C15_OneRecordPerChannel ==
    chan_pc = "returned"
       => \A i, j \in 1..Len(chan_result) :
             i # j => chan_result[i].channelId # chan_result[j].channelId

\* The ids of the batch the loop is at.
BatchAt(i) ==
    [k \in 1..(IF Len(channel_ids) - i < 50 THEN Len(channel_ids) - i ELSE 50) |->
        channel_ids[i + k]]

\* C17: in the channel batch loop a batch the Ledger cannot afford, or one
\* the Gateway refuses with QuotaExceededError, ends the pass with the records
\* of the batches before it; any other failure of a batch leaves the records
\* as they are and the loop goes on to the next batch; a successful batch
\* adds its records; what is returned is what was collected.
C17_BatchFailureContained ==
    [][chan_pc = "loop"
         => IF quota_manager.used_quota + 1 > quota_manager.daily_limit
            THEN /\ call_bit' = call_bit
                 /\ chan_pc' = "returned"
                 /\ chan_result' = channels
            ELSE /\ call_bit' # call_bit
                 /\ last_call'.op = "channels"
                 /\ last_call'.request.id = BatchAt(batch_start)
                 /\ (last_call'.raised = "QuotaExceededError")
                       => (chan_pc' = "returned" /\ chan_result' = channels)
                 /\ (last_call'.raised \notin {"none", "QuotaExceededError"})
                       => /\ channels' = channels
                          /\ IF batch_start + 50 < Len(channel_ids)
                             THEN chan_pc' = "loop" /\ batch_start' = batch_start + 50
                             ELSE chan_pc' = "returned" /\ chan_result' = channels
                 /\ (last_call'.raised = "none")
                       => /\ Len(channels') = Len(channels) + last_call'.received
                          /\ SubSeq(channels', 1, Len(channels)) = channels
                          /\ IF batch_start + 50 < Len(channel_ids)
                             THEN chan_pc' = "loop" /\ batch_start' = batch_start + 50
                             ELSE chan_pc' = "returned" /\ chan_result' = channels']_vars

C17_Witness ==
    /\ chan_pc = "returned"
    /\ chan_exit = "for"
    /\ Len(batches) = 2
    /\ ~batches[1].ok
    /\ batches[2].ok
    /\ Len(chan_result) = 1

\* C11: once the driver of a query has ended because of quota (the local
\* pre-check or a QuotaExceededError of the Gateway), no later query is
\* attempted in that campaign.
C11_QuotaEndStopsCampaign ==
    \A k \in 1..Len(finished) :
        finished[k].exit \in QuotaExits => Len(attempted) <= k

\* The loop was left by the budget check, with queries still to do.
ThresholdStop == LoopOver /\ qi <= Len(remaining_queries)

\* C12: at the head of the loop a query is attempted only if at least 4000
\* units remain; otherwise the loop ends without any request, and the query
\* it stopped at and all later ones were not attempted and are neither in
\* completed_queries nor in video_data of the checkpoint on disk.
C12_InsufficientBudgetStops ==
    /\ [](ThresholdStop
            => \A j \in qi..Len(remaining_queries) :
                  /\ remaining_queries[j] \notin Range(attempted)
                  /\ remaining_queries[j] \notin Range(OnDisk.completed_queries)
                  /\ ~DictHas(OnDisk.video_data, remaining_queries[j]))
    /\ [][(camp_pc = "loop" /\ qi <= Len(remaining_queries) /\ camp_pc' # "dead")
            => IF quota_manager.daily_limit - quota_manager.used_quota < 4000
               THEN /\ camp_pc' = "after loop"
                    /\ attempted' = attempted
                    /\ call_bit' = call_bit
                    /\ file' = file
               ELSE attempted' = Append(attempted, remaining_queries[qi])]_vars

C12_Witness ==
    /\ camp_pc = "after loop"
    /\ qi = 2
    /\ Len(remaining_queries) = 2
    /\ Len(finished) = 1
    /\ get_remaining_quota(quota_manager) < 4000
    /\ file.exists
    /\ JsonValid(file.text)

\* C13: at most one extraction task is accepted and not yet ended at any
\* time: a start request is rejected while a task is active.
C13_OneCampaignAtATime == tasks <= 1

\* The api task is executing although is_running is cleared: a stop request
\* was accepted (nothing else clears the flag before the task ends).
StopAccepted ==
    /\ mode = "api"
    /\ camp_pc \in {"loop", "driver", "dump", "sleep", "after loop", "channels", "finish"}
    /\ ~status.is_running

\* C14: once a stop request has been accepted the runner starts no further
\* query.
C14_StopHaltsAtBoundary ==
    [][StopAccepted => Len(attempted') <= Len(attempted)]_vars

\* The channelIds of all videos of all queries, the empty one left out.
ChannelIdsOfVideos ==
    {c \in 0..(batch_size + 1) :
        \E k \in 1..Len(all_video_data) :
           \E j \in 1..Len(all_video_data[k].value) :
              all_video_data[k].value[j].channelId = c} \ {0}

\* The k-th run of at most 50 of the ids the pass works on.
RunOf50(k) ==
    LET len == IF 50 * k <= Len(channel_ids) THEN 50 ELSE Len(channel_ids) - 50 * (k - 1)
    IN  [m \in 1..len |-> channel_ids[50 * (k - 1) + m]]

\* C16: the channel pass of a campaign works on the distinct non-empty
\* channelIds of all videos of all queries in ascending order; its k-th
\* request carries the k-th run of at most 50 of them; a pass that went
\* through all batches issued exactly ceil(n/50) requests.
C16_ChannelPassBatches ==
    camp_pc = "channels"
       => /\ {channel_ids[k] : k \in 1..Len(channel_ids)} = ChannelIdsOfVideos
          /\ \A i, j \in 1..Len(channel_ids) : i < j => channel_ids[i] < channel_ids[j]
          /\ \A k \in 1..Len(batches) : batches[k].id = RunOf50(k)
          /\ (chan_pc = "returned" /\ chan_exit \in {"for", "not channel_ids"})
                => Len(batches) = (Len(channel_ids) + 49) \div 50

C16_Witness ==
    /\ camp_pc = "channels"
    /\ chan_pc = "returned"
    /\ chan_exit = "for"
    /\ Len(all_video_data[1].value) = 53
    /\ Len(channel_ids) = 51
    /\ Len(batches) = 2
    /\ batches[1].ok
    /\ batches[2].ok
    /\ Len(chan_result) = 51

\* C18: scenario A. A fresh api campaign of two queries with daily quota 500
\* hands both queries to the driver, is charged two searches, lists both as
\* completed and ends with is_running cleared and no error.
C18_ScenarioA ==
    (mode = "api" /\ camp_pc = "done" /\ daily_quota = 500 /\ progress = EmptyProgress)
       => /\ attempted = queries
          /\ charged["search"] = 2
          /\ status.completed_queries = queries
          /\ ~status.is_running
          /\ status.errors = <<>>

\* C19: scenario B. A fresh api campaign with daily quota 150 hands the first
\* query to the driver, which is charged one search, ends at the quota
\* pre-check and returns what page 1 held; the campaign lists that query as
\* completed and attempts no other.
C19_ScenarioB ==
    (mode = "api" /\ camp_pc = "done" /\ daily_quota = 150 /\ progress = EmptyProgress)
       => /\ attempted = <<queries[1]>>
          /\ charged["search"] = 1
          /\ Len(finished) = 1
          /\ finished[1].exit = "quota pre-check"
          /\ finished[1].value # <<>>
          /\ status.completed_queries = <<queries[1]>>

\* C20: a campaign that begins on a checkpoint file that cannot be parsed
\* does begin, with the empty checkpoint: no completed queries, no video
\* data, and all supplied queries remaining. (A task that fails to construct
\* its client ends before it reads the checkpoint.)
C20_CorruptCheckpointIsFresh ==
    [][(camp_pc \in {"idle", "queued"} /\ camp_pc' \notin {"idle", "queued", "failed"}
          /\ file \in CorruptFiles)
          => /\ camp_pc' = "loop"
             /\ progress' = [completed_queries |-> <<>>, video_data |-> <<>>]
             /\ all_video_data' = <<>>
             /\ remaining_queries' = queries'
             /\ qi' = 1]_vars

C20_Witness ==
    /\ camp_pc = "loop"
    /\ qi = 1
    /\ file \in CorruptFiles
    /\ file.text # <<>>
    /\ queries # <<>>
    /\ remaining_queries = queries

\* C21: a search of a phrase that ended on a failure other than quota is
\* recorded for the runner: as soon as the runner has the driver's result for
\* that phrase, the status holds an error entry for the query.
C21_FailureIsRecorded ==
    mode = "api"
        => \A k \in 1..Len(finished) :
              finished[k].exit \in {"HttpError", "Exception"}
                  => "Error with query" \in Range(status.errors)

\* C23: after a campaign in which a quota stop ended a search or the channel
\* pass, the status says so: quota_exceeded is set or errors has an entry.
C23_QuotaStopIsVisible ==
    (/\ mode = "api"
     /\ camp_pc = "done"
     /\ \/ \E k \in 1..Len(finished) : finished[k].exit \in QuotaExits
        \/ chan_exit \in QuotaExits)
        => (status.quota_exceeded \/ status.errors # <<>>)

\* C25: a Gateway call that reaches the remote service throttles first, then
\* calls the remote service, then, on success only, charges the Ledger once
\* (cost added to used_quota, request_count up by one) and returns. No remote
\* call without the throttle before it, no successful return without exactly
\* one charge after the remote call, no charge on a failure.
C25_ThrottleRemoteCharge ==
    [][call_bit' # call_bit
        => LET c == last_call'
           IN  /\ c.events \in {<<>>, <<"throttle", "remote">>,
                                <<"throttle", "remote", "charge">>}
               /\ (c.raised = "none" /\ NonEmptyRequest(c))
                     => /\ c.events = <<"throttle", "remote", "charge">>
                        /\ quota_manager' = [quota_manager EXCEPT
                                               !.used_quota = @ + COSTS[c.op],
                                               !.request_count = @ + 1]
               /\ c.raised # "none"
                     => /\ c.events # <<"throttle", "remote", "charge">>
                        /\ quota_manager' = quota_manager]_vars

C25_Witness ==
    /\ last_call.op = "channels"
    /\ last_call.events = <<"throttle", "remote", "charge">>
    /\ quota_manager.request_count = 2
    /\ quota_manager.used_quota = 101

\* C30: whatever Gateway calls were made, with whatever outcomes, the quota
\* used is never negative and never above the daily limit.
C30_UsedWithinLimit ==
    /\ 0 <= quota_manager.used_quota
    /\ quota_manager.used_quota <= quota_manager.daily_limit

C30_Witness ==
    /\ quota_manager.daily_limit = 101
    /\ quota_manager.used_quota = quota_manager.daily_limit
    /\ last_call.raised = "QuotaExceededError"
    /\ last_call.events = <<>>

\* C24: a Gateway call whose remote call failed raises QuotaExceededError
\* exactly when the failure is an HttpError with status 403 whose text holds
\* the marker quotaExceeded; every other failure (403 without the marker,
\* another status with or without it, a failure that is no HttpError) leaves
\* the Gateway as the failure it was; a remote call that returned raises
\* nothing.
C24_QuotaSignalIsExact ==
    [][(call_bit' # call_bit /\ last_call'.events # <<>>)
        => LET o == last_remote'
               c == last_call'
               signal == o.kind = "HttpError" /\ o.status = 403 /\ o.marker
           IN  /\ (c.raised = "QuotaExceededError") <=> signal
               /\ (c.raised = "none") <=> (o.kind = "ok")
               /\ (o.kind = "HttpError" /\ ~signal) => c.raised = "HttpError"
               /\ (o.kind = "Exception") => c.raised = "Exception"]_vars

C24_Witness ==
    /\ last_remote = [kind |-> "HttpError", status |-> 403, marker |-> FALSE]
    /\ last_call.raised = "HttpError"
    /\ last_call.events = <<"throttle", "remote">>

\* C26 (as claimed): a remote call is not issued before min_request_interval
\* has passed since the previous remote call returned.
C26_SpacedFromReturn ==
    spacing.first \/ spacing.since_return >= min_request_interval

\* C26 (amended): a remote call is not issued before min_request_interval has
\* passed since the previous remote call was issued, whatever the time the
\* previous call took and the time that passed after it.
C26_SpacedFromIssue ==
    spacing.first \/ spacing.since_issue >= min_request_interval

C26_Witness ==
    /\ ~spacing.first
    /\ spacing.since_issue = min_request_interval
    /\ spacing.since_return = 1
    /\ last_call.events = <<"throttle", "remote", "charge">>

\* C27: every search request of one search_videos run asks for the query of
\* the run; the first carries no page token and every later one carries the
\* nextPageToken of the response before it; each asks for
\* min(50, max_videos - len(videos)) results, which is at least 1.
C27_PagesAreSequential ==
    [][(driver_pc = "loop" /\ call_bit' # call_bit)
        => LET c == last_call'
           IN  /\ c.op = "search"
               /\ c.events # <<>>
               /\ c.request.q = query
               /\ c.request.pageToken = IF page_no = 0 THEN "None"
                                        ELSE last_call.next_token
               /\ c.request.maxResults = Min(50, max_videos - Len(videos))
               /\ c.request.maxResults >= 1]_vars

\* A second page asked for with the token of the first, capped at 50.
C27_Witness ==
    /\ page_no = 1
    /\ max_videos = videos_per_page + 1
    /\ Len(videos) = 1
    /\ last_call.request.pageToken = "t2"
    /\ last_call.request.maxResults = 50
    /\ last_call.raised # "none"

\* A search request of the running driver was answered with a page.
PageReceived ==
    driver_pc = "loop" /\ call_bit' # call_bit /\ last_call'.raised = "none"

\* C28 (as claimed): after a page was received, search_videos stops exactly
\* when the page had no nextPageToken or len(videos) has reached max_videos;
\* and inside the loop, while the Ledger can afford a search, the next step
\* is a search request.
C28_StopsOnTokenOrTarget ==
    [][/\ PageReceived
            => ((driver_pc' = "returned")
                   <=> (\/ last_call'.next_token = "None"
                        \/ Len(videos') >= max_videos))
       /\ (driver_pc = "loop" /\ can_make_request(quota_manager, "search"))
            => call_bit' # call_bit]_vars

\* C28 (amended): after a page was received, search_videos stops exactly when
\* the page had no items, or had no nextPageToken, or len(videos) has reached
\* max_videos; otherwise it stays in the loop, and inside the loop, while the
\* Ledger can afford a search, the next step is a search request.
C28_StopsOnEmptyTokenOrTarget ==
    [][/\ PageReceived
            => /\ (driver_pc' = "returned")
                     <=> (\/ last_call'.received = 0
                          \/ last_call'.next_token = "None"
                          \/ Len(videos') >= max_videos)
               /\ driver_pc' \in {"loop", "returned"}
       /\ (driver_pc = "loop" /\ can_make_request(quota_manager, "search"))
            => call_bit' # call_bit]_vars

\* An empty page that named a successor ended the run short of its target.
C28_Witness ==
    /\ driver_pc = "returned"
    /\ driver_exit = "no items"
    /\ last_call.raised = "none"
    /\ last_call.received = 0
    /\ last_call.next_token = "t1"
    /\ page_no = 2
    /\ Len(videos) < max_videos

\* C29: a run of search_videos, once in its loop, returns, whatever the
\* remote service answers; and the pages it has received (its successful
\* search requests) never number more than the budget that remained when it
\* was called, divided by 100 and rounded down.
C29_DriverTerminatesWithinBudget ==
    /\ [](driver_pc \in {"loop", "returned"} => page_no <= entry_budget \div 100)
    /\ (driver_pc = "loop") ~> (driver_pc = "returned")

\* Pages of dropped items that always named a successor: the run ended when
\* the budget was spent.
C29_Witness ==
    /\ driver_pc = "returned"
    /\ driver_exit = "quota pre-check"
    /\ videos = <<>>
    /\ entry_budget = 201
    /\ page_no = 2
    /\ last_call.received = MaxPageItems
    /\ last_call.next_token # "None"

\* C22: a campaign accepted by start_extraction leads, for as long as the
\* process lives, to the end of its task with is_running = false in the
\* status, whichever way the task goes: all queries done, budget
\* insufficient, quota rejection, a failure of the initialisation, a failure
\* in the channel or export phase.
C22_AcceptedCampaignEnds ==
    (camp_pc = "queued")
        ~> (\/ camp_pc \in {"done", "failed"} /\ ~status.is_running
            \/ camp_pc = "dead")

\* The task ended through a failed export after a stop on insufficient
\* budget.
C22_Witness ==
    /\ mode = "api"
    /\ camp_pc = "done"
    /\ ~status.is_running
    /\ status.errors = <<"Insufficient quota remaining", "Channel collection error">>
    /\ tasks = 0

\* C31: a query of the Ledger (can_make_request, get_remaining_quota,
\* get_quota_usage) changes nothing in it, and what it returns is the state
\* of the Ledger, with remaining = daily_limit - used_quota; daily_limit
\* never changes; used_quota decreases only in a reset, which leaves it and
\* request_count at 0; every other change of used_quota adds the fixed cost
\* of one operation and one request.
C31_LedgerFrame ==
    [][/\ quota_manager'.daily_limit = quota_manager.daily_limit
       /\ asked' # asked
            => /\ quota_manager' = quota_manager
               /\ asked'.remaining = quota_manager.daily_limit - quota_manager.used_quota
               /\ asked'.usage = [used |-> quota_manager.used_quota,
                                  limit |-> quota_manager.daily_limit,
                                  remaining |-> asked'.remaining,
                                  requests |-> quota_manager.request_count]
       /\ quota_manager'.used_quota < quota_manager.used_quota
            => /\ quota_manager'.used_quota = 0
               /\ quota_manager'.request_count = 0
       /\ quota_manager'.request_count < quota_manager.request_count
            => /\ quota_manager'.used_quota = 0
               /\ quota_manager'.request_count = 0
       /\ quota_manager'.used_quota > quota_manager.used_quota
            => \E operation \in Operations :
                  /\ quota_manager'.used_quota
                        = quota_manager.used_quota + COSTS[operation]
                  /\ quota_manager'.request_count = quota_manager.request_count + 1]_vars

\* A Ledger that was asked when 101 units were used, and has been reset since.
C31_Witness ==
    /\ asked.usage.used = 101
    /\ asked.usage.requests = 2
    /\ asked.remaining = asked.usage.limit - 101
    /\ quota_manager.used_quota = 0
    /\ quota_manager.request_count = 0
    /\ quota_manager.daily_limit = asked.usage.limit

\* C32: in every whole checkpoint on disk, completed_queries has no
\* duplicates and is the sequence of the keys of video_data.
C32_CompletedAreTheKeys ==
    (file.exists /\ JsonValid(file.text))
       => /\ OnDisk.completed_queries = DictKeys(OnDisk.video_data)
          /\ \A i, j \in 1..Len(OnDisk.completed_queries) :
                OnDisk.completed_queries[i] = OnDisk.completed_queries[j] => i = j

\* The checkpoint a campaign wrote after its second query.
C32_Witness ==
    /\ camp_pc \in {"loop", "sleep"}
    /\ Len(finished) = 2
    /\ progress = EmptyProgress
    /\ file.exists
    /\ JsonValid(file.text)
    /\ OnDisk.completed_queries = <<"q2", "q1">>
    /\ DictGet(OnDisk.video_data, "q1") # <<>>

\* The records of the queries the runner has finished in this campaign, as
\* entries of video_data.
FinishedEntries == [k \in 1..Len(finished) |-> [key |-> finished[k].key,
                                               value |-> finished[k].value]]

\* C33: the checkpoint on disk only grows during a campaign: after every
\* persist it holds the checkpoint loaded at the start, with its queries and
\* their records unchanged, followed by the queries finished in this campaign
\* in the order they were finished, the one just finished last.
C33_CheckpointOnlyGrows ==
    [][(camp_pc = "dump" /\ camp_pc' # "dead")
        => LET new == load_progress(file')
           IN  /\ new.video_data = progress.video_data \o FinishedEntries
               /\ new.completed_queries
                     = progress.completed_queries \o DictKeys(FinishedEntries)
               /\ new.completed_queries[Len(new.completed_queries)] = query]_vars

\* The phases of a campaign that follow its query loop.
AfterTheLoop == {"after loop", "channels", "finish", "done", "dead", "failed"}

C35_StatusReflectsLedger ==
    (mode = "api" /\ camp_pc = "done" /\ ~status.is_running)
        => /\ status.quota_used = quota_manager.used_quota
           /\ status.quota_limit = quota_manager.daily_limit
           /\ quota_manager.daily_limit = daily_quota

\* C36: the command-line runner removes the progress file only when every
\* query of its list has an entry in what it collected, and not after a run
\* whose loop was left by the budget check with queries still to do.
C36_RetiredOnlyWhenComplete ==
    [][(mode = "cli" /\ file.exists /\ ~file'.exists)
        => /\ \A k \in 1..Len(queries) : DictHas(all_video_data, queries[k])
           /\ ~ThresholdStop]_vars

\* C37: when the run is interrupted during query q (search_videos has not
\* returned its records to the loop yet), the progress file afterwards holds
\* the queries completed before, with their records, and not q, so that q is
\* among the remaining queries of the next run.
C37_InterruptKeepsCompleted ==
    [][(mode = "cli" /\ camp_pc = "driver" /\ camp_pc' = "interrupted")
        => LET new == load_progress(file')
           IN  /\ new.completed_queries
                     = progress.completed_queries \o DictKeys(FinishedEntries)
               /\ new.video_data = progress.video_data \o FinishedEntries
               /\ query \notin Range(new.completed_queries)
               /\ query \in Range(RemainingQueries(queries, new.completed_queries))]_vars

====
